---------------------------- MODULE Spec2Model ----------------------------
(***************************************************************************)
(* A model of generate_schema_doc.py: the table formatter                  *)
(* create_schema_table (with add_table_borders) and the document assembler *)
(* main.  The document is the ordered sequence of its block-level elements *)
(* (headings, paragraphs, tables, page breaks); the document-authoring     *)
(* library is modelled by what each of its calls used here does to that    *)
(* sequence.                                                               *)
(*                                                                         *)
(* Two specifications share the actions of create_schema_table:            *)
(*   Spec       a run of main, statement by statement, with the save       *)
(*              succeeding or failing;                                     *)
(*   SpecTable  one call of create_schema_table on any title, headers and  *)
(*              rows within the bounds, onto a document that already holds *)
(*              a block.                                                   *)
(***************************************************************************)
EXTENDS Integers, Sequences, FiniteSets, TLC

\* ---- bounds of SpecTable's inputs ----
MaxRows == 2
MaxCols == 2
MaxRowLen == 3

\* ---- Python values and str() ----
\* A value passed in a row: a str or a bool (one record shape for both).
PyStr(s) == [kind |-> "str", s |-> s, b |-> FALSE]
PyBool(b) == [kind |-> "bool", s |-> "", b |-> b]

\* str(cell_data), line 60: the text form of a value.
str(v) ==
  CASE v.kind = "str" -> v.s
    [] v.kind = "bool" -> (IF v.b THEN "True" ELSE "False")

\* The literal rows of main hold str values only.
PyStrs(rows) ==
  [r \in DOMAIN rows |-> [c \in DOMAIN rows[r] |-> PyStr(rows[r][c])]]

\* ---- the document and the library calls the program uses ----
\* A run of text with its font properties ("None" / 0: not set).
NewRun(text) ==
  [text |-> text, bold |-> "None", italic |-> "None", size |-> 0,
   color |-> "None", name |-> "None"]

\* One record shape for every block; fields a block type does not use stay empty.
Block(type, level, style, runs) ==
  [type |-> type, level |-> level, style |-> style, alignment |-> "None",
   runs |-> runs, cells |-> <<>>, tblBorders |-> <<>>]

\* doc.add_paragraph(text, style): a run is added only for non-empty text.
NewParagraph(text, style) ==
  Block("paragraph", 0, style, IF text = "" THEN <<>> ELSE <<NewRun(text)>>)

\* doc.add_heading(text, level)
NewHeading(text, level) ==
  Block("heading", level, "Heading", IF text = "" THEN <<>> ELSE <<NewRun(text)>>)

\* doc.add_page_break()
NewPageBreak == Block("page_break", 0, "None", <<>>)

\* A fresh table cell: one empty paragraph (no runs), no shading.
NewCell == [runs |-> <<>>, shd |-> <<>>]

\* doc.add_table(rows=nrows, cols=ncols), line 36
add_table(nrows, ncols) ==
  [Block("table", 0, "None", <<>>) EXCEPT
     !.cells = [r \in 1..nrows |-> [c \in 1..ncols |-> NewCell]]]

\* cell.text = text: the cell's content becomes one paragraph with one run.
SetCellText(cell, text) == [cell EXCEPT !.runs = <<NewRun(text)>>]

\* cell.text: the text of the cell's runs ("" when it has none).
CellText(cell) == IF cell.runs = <<>> THEN "" ELSE cell.runs[1].text

\* ---- add_table_borders, lines 10-26 ----
border_names_outer_only == <<"top", "left", "bottom", "right">>

border_names == <<"top", "left", "bottom", "right", "insideH", "insideV">>

NewBorder(border_name) ==
  [name |-> border_name, val |-> "single", sz |-> "4", space |-> "0",
   color |-> "000000"]

add_table_borders(table) ==
  [table EXCEPT
     !.tblBorders = [k \in DOMAIN border_names |-> NewBorder(border_names[k])]]

\* ---- the statements of main ----
\* One record shape for every statement of main; a statement that assigns to
\* the paragraph or heading it has just added (title, subtitle, toc, example,
\* p) acts on the last block of the document.
Stmt(op) ==
  [op |-> op, text |-> "", level |-> 0, style |-> "None", attr |-> "",
   sval |-> "None", ival |-> 0, headers |-> <<>>, rows |-> <<>>]

SetCoreStmt(attr, value) == [Stmt("set_core") EXCEPT !.attr = attr, !.sval = value]
AddHeadingStmt(text, level) == [Stmt("add_heading") EXCEPT !.text = text, !.level = level]
AddParagraphStmt(text, style) == [Stmt("add_paragraph") EXCEPT !.text = text, !.style = style]
AddPageBreakStmt == Stmt("add_page_break")
AddRunStmt(text) == [Stmt("add_run") EXCEPT !.text = text]
SetAlignmentStmt(value) == [Stmt("set_alignment") EXCEPT !.sval = value]
SetRunFontStmt(attr, sval, ival) ==
  [Stmt("set_run_font") EXCEPT !.attr = attr, !.sval = sval, !.ival = ival]
CallStmt(title, headers, rows) ==
  [Stmt("create_schema_table") EXCEPT !.text = title, !.headers = headers, !.rows = rows]
SaveStmt(path) == [Stmt("save") EXCEPT !.sval = path]
PrintStmt(text) == [Stmt("print") EXCEPT !.text = text]

\* ---- literal data of main (non-ASCII symbols are written as their code points) ----
\* src/generate_schema_doc.py:107-149
onboarding_data ==
  <<
    <<"data_flow_id", "String", "(U+2705) Yes", "Unique identifier for the pipeline">>,
    <<"data_flow_group", "String", "(U+2705) Yes", "Group identifier for launching multiple pipelines under single DLT Pipeline">>,
    <<"source_system", "String", "(U+274C) Optional", "Source system identifier (e.g., MYSQL, ORACLE, SAP)">>,
    <<"source_format", "String", "(U+2705) Yes", "Source format: cloudFiles, eventhub, kafka, delta, snapshot">>,
    <<"source_details", "Object", "(U+2705) Yes", "Source-specific configuration (see subsection 1.1)">>,
    <<"bronze_catalog_{env}", "String", "(U+26A0 U+FE0F) Recommended", "Unity Catalog name for bronze layer (env = dev/prod/staging)">>,
    <<"bronze_database_{env}", "String", "(U+2705) Yes", "Delta Lake bronze database name">>,
    <<"bronze_table", "String", "(U+2705) Yes", "Delta Lake bronze table name">>,
    <<"bronze_table_comment", "String", "(U+274C) Optional", "Bronze table comment/description">>,
    <<"bronze_reader_options", "Object", "(U+274C) Optional", "Spark reader options (e.g., {\"header\": \"true\"})">>,
    <<"bronze_partition_columns", "String/Array", "(U+274C) Optional", "Bronze table partition columns list">>,
    <<"bronze_table_cluster_by", "Array", "(U+274C) Optional", "Bronze table cluster by columns list">>,
    <<"bronze_cdc_apply_changes", "Object", "(U+274C) Optional", "Bronze CDC apply changes configuration (see subsection 1.2)">>,
    <<"bronze_apply_changes_from_snapshot", "Object", "(U+274C) Optional", "Bronze apply changes from snapshot config (see subsection 1.3)">>,
    <<"bronze_table_path_{env}", "String", "(U+26A0 U+FE0F) Conditional", "Bronze table storage path (mandatory if UC not enabled)">>,
    <<"bronze_table_properties", "Object", "(U+274C) Optional", "DLT table properties (e.g., {\"pipelines.autoOptimize.managed\": \"false\"})">>,
    <<"bronze_sink", "Object", "(U+274C) Optional", "DLT Sink API properties for bronze layer (see subsection 1.5)">>,
    <<"bronze_data_quality_expectations_json_{env}", "String", "(U+274C) Optional", "Path to bronze DQE JSON file">>,
    <<"bronze_catalog_quarantine_{env}", "String", "(U+274C) Optional", "Unity Catalog name for quarantine data">>,
    <<"bronze_database_quarantine_{env}", "String", "(U+274C) Optional", "Database for quarantine data that fails expectations">>,
    <<"bronze_quarantine_table", "String", "(U+274C) Optional", "Table name for quarantine data">>,
    <<"bronze_quarantine_table_comment", "String", "(U+274C) Optional", "Quarantine table comment">>,
    <<"bronze_quarantine_table_path_{env}", "String", "(U+274C) Optional", "Quarantine table storage path">>,
    <<"bronze_quarantine_table_partitions", "Array", "(U+274C) Optional", "Quarantine table partition columns">>,
    <<"bronze_quarantine_table_cluster_by", "Array", "(U+274C) Optional", "Quarantine table cluster columns">>,
    <<"bronze_quarantine_table_properties", "Object", "(U+274C) Optional", "DLT table properties for quarantine table">>,
    <<"bronze_append_flows", "Array", "(U+274C) Optional", "Bronze table append flows configuration (see subsection 1.4)">>,
    <<"silver_catalog_{env}", "String", "(U+26A0 U+FE0F) Recommended", "Unity Catalog name for silver layer">>,
    <<"silver_database_{env}", "String", "(U+26A0 U+FE0F) Conditional", "Silver database name (mandatory for silver layer)">>,
    <<"silver_table", "String", "(U+26A0 U+FE0F) Conditional", "Silver table name (mandatory for silver layer)">>,
    <<"silver_table_comment", "String", "(U+274C) Optional", "Silver table comment/description">>,
    <<"silver_partition_columns", "Array", "(U+274C) Optional", "Silver table partition columns list">>,
    <<"silver_table_cluster_by", "Array", "(U+274C) Optional", "Silver table cluster by columns list">>,
    <<"silver_cdc_apply_changes", "Object", "(U+274C) Optional", "Silver CDC apply changes configuration (see subsection 1.2)">>,
    <<"silver_apply_changes_from_snapshot", "Object", "(U+274C) Optional", "Silver apply changes from snapshot configuration">>,
    <<"silver_table_path_{env}", "String", "(U+26A0 U+FE0F) Conditional", "Silver table storage path (mandatory if UC not enabled for silver layer)">>,
    <<"silver_table_properties", "Object", "(U+274C) Optional", "DLT table properties for silver table">>,
    <<"silver_sink", "Object", "(U+274C) Optional", "DLT Sink API properties for silver layer">>,
    <<"silver_transformation_json_{env}", "String", "(U+26A0 U+FE0F) Conditional", "Path to silver transformation JSON file (mandatory for silver layer)">>,
    <<"silver_data_quality_expectations_json_{env}", "String", "(U+274C) Optional", "Path to silver DQE JSON file">>,
    <<"silver_append_flows", "Array", "(U+274C) Optional", "Silver table append flows configuration">>
  >>

\* src/generate_schema_doc.py:161-170
cloudfiles_data ==
  <<
    <<"source_database", "String", "(U+274C) Optional", "Source database name">>,
    <<"source_table", "String", "(U+274C) Optional", "Source table name">>,
    <<"source_path_{env}", "String", "(U+2705) Yes", "Source file path for CloudFiles">>,
    <<"source_schema_path", "String", "(U+2705) Yes", "Path to DDL schema file (Spark DDL format)">>,
    <<"source_metadata", "Object", "(U+274C) Optional", "Metadata configuration for _metadata columns">>,
    <<"source_metadata.include_autoloader_metadata_column", "String", "(U+274C) Optional", "\"True\"/\"False\" to add _metadata column">>,
    <<"source_metadata.autoloader_metadata_col_name", "String", "(U+274C) Optional", "Rename _metadata column (default: \"source_metadata\")">>,
    <<"source_metadata.select_metadata_cols", "Object", "(U+274C) Optional", "Extract columns from _metadata (e.g., {\"input_file_name\": \"_metadata.file_name\"})">>
  >>

\* src/generate_schema_doc.py:179-189
eventhub_data ==
  <<
    <<"source_schema_path", "String", "(U+2705) Yes", "Path to DDL schema file">>,
    <<"eventhub.accessKeyName", "String", "(U+2705) Yes", "EventHub access key name">>,
    <<"eventhub.accessKeySecretName", "String", "(U+2705) Yes", "EventHub access key secret name">>,
    <<"eventhub.name", "String", "(U+2705) Yes", "EventHub name">>,
    <<"eventhub.secretsScopeName", "String", "(U+2705) Yes", "Databricks secrets scope name">>,
    <<"eventhub.namespace", "String", "(U+2705) Yes", "EventHub namespace">>,
    <<"eventhub.port", "String", "(U+2705) Yes", "EventHub port (typically \"9093\")">>,
    <<"kafka.sasl.mechanism", "String", "(U+2705) Yes", "SASL mechanism (typically \"PLAIN\")">>,
    <<"kafka.security.protocol", "String", "(U+2705) Yes", "Security protocol (typically \"SASL_SSL\")">>
  >>

snapshot_data_three_fields ==
  <<
    <<"source_path_{env}", "String", "Path to snapshot files">>,
    <<"snapshot_format", "String", "(U+2705) Yes", "Snapshot file format (e.g., \"csv\", \"parquet\")">>
  >>

\* src/generate_schema_doc.py:198-201
snapshot_data ==
  <<
    <<"source_path_{env}", "String", "(U+2705) Yes", "Path to snapshot files">>,
    <<"snapshot_format", "String", "(U+2705) Yes", "Snapshot file format (e.g., \"csv\", \"parquet\")">>
  >>

\* src/generate_schema_doc.py:212-228
cdc_data ==
  <<
    <<"keys", "Array", "(U+2705) Yes", "Primary key columns for CDC operations">>,
    <<"sequence_by", "String", "(U+2705) Yes", "Column used for ordering changes (e.g., timestamp)">>,
    <<"scd_type", "String", "(U+2705) Yes", "Slowly Changing Dimension type: \"1\" or \"2\"">>,
    <<"where", "String", "(U+274C) Optional", "Filter condition for applying changes">>,
    <<"ignore_null_updates", "Boolean", "(U+274C) Optional", "Whether to ignore null updates (default: false)">>,
    <<"apply_as_deletes", "String", "(U+274C) Optional", "Expression to identify delete operations (e.g., \"operation = 'DELETE'\")">>,
    <<"apply_as_truncates", "String", "(U+274C) Optional", "Expression to identify truncate operations">>,
    <<"column_list", "Array", "(U+274C) Optional", "Specific columns to include in CDC">>,
    <<"except_column_list", "Array", "(U+274C) Optional", "Columns to exclude from CDC (e.g., [\"operation\", \"_rescued_data\"])">>,
    <<"track_history_column_list", "Array", "(U+274C) Optional", "Columns to track history for (SCD Type 2)">>,
    <<"track_history_except_column_list", "Array", "(U+274C) Optional", "Columns to exclude from history tracking">>,
    <<"flow_name", "String", "(U+274C) Optional", "Custom flow name">>,
    <<"once", "Boolean", "(U+274C) Optional", "Process data once (default: false)">>,
    <<"ignore_null_updates_column_list", "Array", "(U+274C) Optional", "Specific columns to ignore null updates">>,
    <<"ignore_null_updates_except_column_list", "Array", "(U+274C) Optional", "Columns to exclude from ignore null updates">>
  >>

\* src/generate_schema_doc.py:239-244
snapshot_changes_data ==
  <<
    <<"keys", "Array", "(U+2705) Yes", "Primary key columns for snapshot tracking">>,
    <<"scd_type", "String", "(U+2705) Yes", "Slowly Changing Dimension type: \"1\" or \"2\"">>,
    <<"track_history_column_list", "Array", "(U+274C) Optional", "Columns to track history for (SCD Type 2)">>,
    <<"track_history_except_column_list", "Array", "(U+274C) Optional", "Columns to exclude from history tracking">>
  >>

\* src/generate_schema_doc.py:253-263
append_flows_data ==
  <<
    <<"name", "String", "(U+2705) Yes", "Unique name for the append flow">>,
    <<"source_format", "String", "(U+2705) Yes", "Source format for append flow">>,
    <<"create_streaming_table", "Boolean", "(U+2705) Yes", "Whether to create streaming table (true/false)">>,
    <<"source_details", "Object", "(U+2705) Yes", "Source details (same structure as main source_details)">>,
    <<"comment", "String", "(U+274C) Optional", "Append flow comment/description">>,
    <<"reader_options", "Object", "(U+274C) Optional", "Spark reader options">>,
    <<"spark_conf", "Object", "(U+274C) Optional", "Spark configuration for this flow">>,
    <<"once", "Boolean", "(U+274C) Optional", "Process data once (default: false)">>,
    <<"target", "String", "(U+274C) Optional", "Target table name for silver append flows">>
  >>

\* src/generate_schema_doc.py:274-280
sink_data ==
  <<
    <<"name", "String", "(U+2705) Yes", "Sink name identifier">>,
    <<"format", "String", "(U+2705) Yes", "Sink format: delta, kafka, eventhub">>,
    <<"options", "Object", "(U+2705) Yes", "Format-specific options (e.g., {\"tableName\": \"catalog.schema.table\"} for delta)">>,
    <<"select_exp", "Array", "(U+274C) Optional", "SQL expressions to apply before sinking">>,
    <<"where_clause", "String", "(U+274C) Optional", "Filter condition before sinking">>
  >>

\* src/generate_schema_doc.py:292-297
silver_transform_data ==
  <<
    <<"target_table", "String", "(U+2705) Yes", "Target silver table name for transformation output">>,
    <<"select_exp", "Array", "(U+2705) Yes", "Array of SQL expressions/column selections (e.g., [\"concat(first_name,' ',last_name) as full_name\"])">>,
    <<"target_partition_cols", "Array", "(U+274C) Optional", "Partition columns for the target table">>,
    <<"where_clause", "Array", "(U+274C) Optional", "Array of filter conditions to apply (e.g., [\"country = 'United States'\"])">>
  >>

\* src/generate_schema_doc.py:328-333
dqe_data ==
  <<
    <<"expect", "Object", "(U+274C) Optional", "Rules where failing records are INCLUDED in target dataset. Key=rule name, Value=SQL condition">>,
    <<"expect_or_fail", "Object", "(U+274C) Optional", "Rules where failing records HALT pipeline execution. Key=rule name, Value=SQL condition">>,
    <<"expect_or_drop", "Object", "(U+274C) Optional", "Rules where failing records are DROPPED from target dataset. Key=rule name, Value=SQL condition">>,
    <<"expect_or_quarantine", "Object", "(U+274C) Optional", "Rules where failing records go to quarantine table (Bronze layer only). Key=rule name, Value=SQL condition">>
  >>

\* src/generate_schema_doc.py:359-368
notes ==
  <<
    "{env} placeholder represents environment suffix: _dev, _prod, _staging, _it, etc.",
    "Mandatory Fields ((U+2705)): Must be provided in all cases",
    "Conditional Fields ((U+26A0 U+FE0F) Conditional): Required based on context (e.g., bronze_table_path_{env} is mandatory only when Unity Catalog is not enabled; silver fields are mandatory when defining silver layer)",
    "Recommended Fields ((U+26A0 U+FE0F) Recommended): Highly recommended for Unity Catalog environments",
    "Optional Fields ((U+274C)): Can be omitted",
    "All JSON files must be valid JSON format and accessible from the Databricks workspace",
    "Schema files referenced in source_schema_path should be in Spark DDL format",
    "Source code validation occurs in src/onboard_dataflowspec.py and src/dataflow_spec.py"
  >>

\* src/generate_schema_doc.py:375-375
output_path ==
  "/Users/paulambasu/Downloads/Development/Databricks/dlt-meta/DLT-META_JSON_Schema_Documentation.docx"

\* ---- the statements of main, in source order ----
\* src/generate_schema_doc.py:72-73
main_properties ==
  <<
    SetCoreStmt("title", "DLT-META JSON Configuration Schemas"),
    SetCoreStmt("author", "DLT-META")
  >>

\* src/generate_schema_doc.py:76-88
main_title_page ==
  <<
    AddHeadingStmt("DLT-META JSON Configuration Schemas", 1),
    SetAlignmentStmt("CENTER"),
    SetRunFontStmt("color", "003366", 0),
    SetRunFontStmt("size", "None", 24),
    AddParagraphStmt("Complete Reference Guide", "None"),
    SetAlignmentStmt("CENTER"),
    SetRunFontStmt("size", "None", 14),
    SetRunFontStmt("italic", "True", 0),
    AddParagraphStmt("", "None"),
    AddParagraphStmt("Generated: October 23, 2025", "None"),
    AddPageBreakStmt
  >>

main_toc_stale_entry ==
  <<
    AddHeadingStmt("Table of Contents", 1),
    AddParagraphStmt("", "None"),
    AddRunStmt("1. Onboarding JSON Schema (Data Flow Specification)\n"),
    AddRunStmt("   1.1 Source Details Object\n"),
    AddRunStmt("   1.2 CDC Apply Changes Object\n"),
    AddRunStmt("   1.3 Apply Changes From Snapshot Object\n"),
    AddRunStmt("   1.4 Append Flows Object\n"),
    AddRunStmt("   1.5 Sink Object (DLT Sink API)\n"),
    AddRunStmt("2. Silver Transformations JSON Schema\n"),
    AddRunStmt("3. Data Quality Expectations (DQE) JSON Schema\n"),
    AddPageBreakStmt
  >>

\* src/generate_schema_doc.py:91-101
main_toc ==
  <<
    AddHeadingStmt("Table of Contents", 1),
    AddParagraphStmt("", "None"),
    AddRunStmt("1. Onboarding JSON Schema (Data Flow Specification)\n"),
    AddRunStmt("   1.1 Source Details Object\n"),
    AddRunStmt("   1.2 CDC Apply Changes Object\n"),
    AddRunStmt("   1.3 Apply Changes From Snapshot Object\n"),
    AddRunStmt("   1.4 Append Flows Array Object\n"),
    AddRunStmt("   1.5 Sink Object (DLT Sink API)\n"),
    AddRunStmt("2. Silver Transformations JSON Schema\n"),
    AddRunStmt("3. Data Quality Expectations (DQE) JSON Schema\n"),
    AddPageBreakStmt
  >>

\* src/generate_schema_doc.py:104-155
main_onboarding ==
  <<
    AddHeadingStmt("1. Onboarding JSON Schema (Data Flow Specification)", 1),
    AddParagraphStmt("This is the main configuration file for defining data pipelines in DLT-META.", "None"),
    CallStmt("Main Configuration Fields", <<"Field Name", "Type", "Mandatory", "Description">>, PyStrs(onboarding_data)),
    AddPageBreakStmt
  >>

\* src/generate_schema_doc.py:158-207
main_source_details ==
  <<
    AddHeadingStmt("1.1 Source Details Object", 2),
    AddHeadingStmt("For CloudFiles Source Format:", 3),
    CallStmt("", <<"Field Name", "Type", "Mandatory", "Description">>, PyStrs(cloudfiles_data)),
    AddHeadingStmt("For EventHub Source Format:", 3),
    CallStmt("", <<"Field Name", "Type", "Mandatory", "Description">>, PyStrs(eventhub_data)),
    AddHeadingStmt("For Snapshot Source Format:", 3),
    CallStmt("", <<"Field Name", "Type", "Mandatory", "Description">>, PyStrs(snapshot_data)),
    AddPageBreakStmt
  >>

\* src/generate_schema_doc.py:210-234
main_cdc ==
  <<
    AddHeadingStmt("1.2 CDC Apply Changes Object", 2),
    CallStmt("", <<"Field Name", "Type", "Mandatory", "Description">>, PyStrs(cdc_data)),
    AddPageBreakStmt
  >>

\* src/generate_schema_doc.py:237-248
main_snapshot_changes ==
  <<
    AddHeadingStmt("1.3 Apply Changes From Snapshot Object", 2),
    CallStmt("", <<"Field Name", "Type", "Mandatory", "Description">>, PyStrs(snapshot_changes_data))
  >>

\* src/generate_schema_doc.py:251-269
main_append_flows ==
  <<
    AddHeadingStmt("1.4 Append Flows Array Object", 2),
    CallStmt("", <<"Field Name", "Type", "Mandatory", "Description">>, PyStrs(append_flows_data)),
    AddPageBreakStmt
  >>

\* src/generate_schema_doc.py:272-286
main_sink ==
  <<
    AddHeadingStmt("1.5 Sink Object (DLT Sink API)", 2),
    CallStmt("", <<"Field Name", "Type", "Mandatory", "Description">>, PyStrs(sink_data)),
    AddPageBreakStmt
  >>

\* src/generate_schema_doc.py:289-322
main_silver ==
  <<
    AddHeadingStmt("2. Silver Transformations JSON Schema", 1),
    AddParagraphStmt("This file defines SQL transformations for silver layer tables.", "None"),
    CallStmt("", <<"Field Name", "Type", "Mandatory", "Description">>, PyStrs(silver_transform_data)),
    AddHeadingStmt("Example:", 3),
    AddParagraphStmt("[\n  {\n    \"target_table\": \"cars_usa\",\n    \"select_exp\": [\n      \"concat(first_name,' ',last_name) as full_name\",\n      \"country\",\n      \"brand\",\n      \"model\"\n    ],\n    \"where_clause\": [\"country = 'United States'\"]\n  }\n]", "None"),
    SetRunFontStmt("name", "Courier New", 0),
    SetRunFontStmt("size", "None", 9),
    AddPageBreakStmt
  >>

\* src/generate_schema_doc.py:325-355
main_dqe ==
  <<
    AddHeadingStmt("3. Data Quality Expectations (DQE) JSON Schema", 1),
    AddParagraphStmt("This file defines data quality rules for bronze or silver layers.", "None"),
    CallStmt("", <<"Field Name", "Type", "Mandatory", "Description">>, PyStrs(dqe_data)),
    AddHeadingStmt("Example:", 3),
    AddParagraphStmt("{\n  \"expect_or_drop\": {\n    \"no_rescued_data\": \"_rescued_data IS NULL\",\n    \"valid_id\": \"id IS NOT NULL\"\n  },\n  \"expect_or_quarantine\": {\n    \"quarantine_rule\": \"_rescued_data IS NOT NULL OR id IS NULL OR amount=0\"\n  }\n}", "None"),
    SetRunFontStmt("name", "Courier New", 0),
    SetRunFontStmt("size", "None", 9),
    AddPageBreakStmt
  >>

\* src/generate_schema_doc.py:358-372
notes_loop_body(k) ==
  <<AddParagraphStmt(notes[k], "List Bullet"), SetRunFontStmt("size", "None", 10)>>

RECURSIVE notes_loop(_)
notes_loop(k) ==
  IF k > Len(notes) THEN <<>> ELSE notes_loop_body(k) \o notes_loop(k + 1)

main_notes ==
  <<
    AddHeadingStmt("Notes", 1)
  >> \o notes_loop(1)

\* src/generate_schema_doc.py:375-377
main_save ==
  <<
    SaveStmt(output_path),
    PrintStmt("Document saved to: " \o output_path)
  >>

MainProgram_cdc_first ==
  main_properties \o main_title_page \o main_toc \o main_onboarding
  \o main_cdc \o main_source_details \o main_snapshot_changes
  \o main_append_flows \o main_sink \o main_silver \o main_dqe
  \o main_notes \o main_save

MainProgram_save_before_notes ==
  main_properties \o main_title_page \o main_toc \o main_onboarding
  \o main_source_details \o main_cdc \o main_snapshot_changes
  \o main_append_flows \o main_sink \o main_silver \o main_dqe
  \o main_save \o main_notes

\* src/generate_schema_doc.py:67-377
MainProgram ==
  main_properties
  \o main_title_page
  \o main_toc
  \o main_onboarding
  \o main_source_details
  \o main_cdc
  \o main_snapshot_changes
  \o main_append_flows
  \o main_sink
  \o main_silver
  \o main_dqe
  \o main_notes
  \o main_save

\* ---- state ----
VARIABLES
  core_properties,  \* doc.core_properties: title and author
  doc,              \* the document: its blocks, in order
  pc,               \* main: the index in MainProgram of the next statement
  frame,            \* the call of create_schema_table in progress, if any
  error,            \* the exception that ended the run ("None": none)
  files,            \* what doc.save has written: <<path, blocks>> records
  save_calls,       \* how many times doc.save has been called
  stdout            \* the lines printed

vars == <<core_properties, doc, pc, frame, error, files, save_calls, stdout>>

\* The frame of create_schema_table: its arguments, its position (at), its
\* loop indices, the place of its table in the document, and the length of
\* the document when it was called (base).
NewFrame(title, headers, rows, base) ==
  [at |-> "title", title |-> title, headers |-> headers, rows |-> rows,
   table |-> 0, i |-> 0, row_idx |-> 0, col_idx |-> 0, base |-> base]

NoFrame == [NewFrame("", <<>>, <<>>, 0) EXCEPT !.at = "idle"]

Running == error = "None"
InCall == frame.at \notin {"idle", "returned", "raised"}

\* ---- create_schema_table, lines 28-65 ----
\* The data loop's next position from row r: rows with no values are passed
\* over (their inner loop has no iteration); after the last row, line 65.
RECURSIVE EnterRow(_, _)
EnterRow(f, r) ==
  IF r > Len(f.rows) THEN [f EXCEPT !.at = "spacing"]
  ELSE IF Len(f.rows[r]) = 0 THEN EnterRow(f, r + 1)
  ELSE [f EXCEPT !.at = "data", !.row_idx = r, !.col_idx = 0]

\* The header loop's next position: header i (0-based), or on to the data loop.
EnterHeader(f, i) ==
  IF i < Len(f.headers) THEN [f EXCEPT !.at = "header", !.i = i]
  ELSE EnterRow(f, 1)

\* lines 31-33: the title's heading, for a non-empty title only
TitleHeading_always(title) == <<NewHeading(title, 2)>>

TitleHeading(title) ==
  IF title # ""
  THEN <<[NewHeading(title, 2) EXCEPT !.runs[1].color = "003366"]>>
  ELSE <<>>

Title ==
  /\ Running /\ frame.at = "title"
  /\ doc' = doc \o TitleHeading(frame.title)
  /\ frame' = [frame EXCEPT !.at = "table"]
  /\ UNCHANGED <<core_properties, pc, error, files, save_calls, stdout>>

\* lines 36-40: the table, its style and its borders
StyledTable_no_header_row(headers, rows) ==
  add_table_borders(
    [add_table(Len(rows), Len(headers)) EXCEPT !.style = "Light Grid Accent 1"])

RECURSIVE Widest(_, _)
Widest(rows, n) ==
  IF rows = <<>> THEN n
  ELSE Widest(Tail(rows), IF Len(Head(rows)) > n THEN Len(Head(rows)) ELSE n)

StyledTable_widest_row(headers, rows) ==
  add_table_borders(
    [add_table(Len(rows) + 1, Widest(rows, Len(headers))) EXCEPT
       !.style = "Light Grid Accent 1"])

StyledTable(headers, rows) ==
  add_table_borders(
    [add_table(Len(rows) + 1, Len(headers)) EXCEPT !.style = "Light Grid Accent 1"])

AddTable ==
  /\ Running /\ frame.at = "table"
  /\ doc' = Append(doc, StyledTable(frame.headers, frame.rows))
  /\ frame' = EnterHeader([frame EXCEPT !.table = Len(doc) + 1], 0)
  /\ UNCHANGED <<core_properties, pc, error, files, save_calls, stdout>>

\* lines 46-50: every run of the header cell
HeaderRun(run) == [run EXCEPT !.bold = "True", !.size = 10, !.color = "FFFFFF"]

\* lines 45-54: one header cell
HeaderFill == "0070C0"

HeaderCell(cell, header) ==
  LET c == SetCellText(cell, header)
  IN  [c EXCEPT !.runs = [k \in DOMAIN c.runs |-> HeaderRun(c.runs[k])],
                !.shd = Append(c.shd, HeaderFill)]

Header ==
  /\ Running /\ frame.at = "header"
  /\ doc' = [doc EXCEPT ![frame.table].cells[1][frame.i + 1] =
               HeaderCell(@, frame.headers[frame.i + 1])]
  /\ frame' = EnterHeader(frame, frame.i + 1)
  /\ UNCHANGED <<core_properties, pc, error, files, save_calls, stdout>>

\* lines 60-63: one body cell
BodyRun(run) == [run EXCEPT !.size = 9]

BodyCell(cell, cell_data) ==
  LET c == SetCellText(cell, str(cell_data))
  IN  [c EXCEPT !.runs = [k \in DOMAIN c.runs |-> BodyRun(c.runs[k])]]

\* The place in the table of the value at (row_idx, col_idx): row_idx counts
\* from 1 (row 0 is the header), col_idx from 0.
BodyPlace_from_row_0(row_idx, col_idx) == <<row_idx, col_idx + 1>>

BodyPlace(row_idx, col_idx) == <<row_idx + 1, col_idx + 1>>

\* lines 57-63: one iteration of the inner loop. row_cells[col_idx] raises
\* IndexError when the row of the table has no such cell; nothing catches it.
Data ==
  /\ Running /\ frame.at = "data"
  /\ LET row_data == frame.rows[frame.row_idx]
         place == BodyPlace(frame.row_idx, frame.col_idx)
         row_cells == doc[frame.table].cells[place[1]]
     IN  IF place[2] > Len(row_cells)
         THEN /\ error' = "IndexError"
              /\ frame' = [frame EXCEPT !.at = "raised"]
              /\ doc' = doc
         ELSE /\ doc' = [doc EXCEPT ![frame.table].cells[place[1]][place[2]] =
                           BodyCell(@, row_data[frame.col_idx + 1])]
              /\ frame' = IF frame.col_idx + 1 < Len(row_data)
                          THEN [frame EXCEPT !.col_idx = frame.col_idx + 1]
                          ELSE EnterRow(frame, frame.row_idx + 1)
              /\ error' = error
  /\ UNCHANGED <<core_properties, pc, files, save_calls, stdout>>

\* line 65: the spacing paragraph, and the return
Spacing ==
  /\ Running /\ frame.at = "spacing"
  /\ doc' = Append(doc, NewParagraph("", "None"))
  /\ frame' = [frame EXCEPT !.at = "returned"]
  /\ UNCHANGED <<core_properties, pc, error, files, save_calls, stdout>>

create_schema_table == Title \/ AddTable \/ Header \/ Data \/ Spacing

\* ---- main, lines 67-377 ----
AtStmt(op) ==
  /\ Running /\ ~InCall
  /\ pc <= Len(MainProgram)
  /\ MainProgram[pc].op = op

stmt == MainProgram[pc]

\* lines 72-73
SetCore ==
  /\ AtStmt("set_core")
  /\ core_properties' = [core_properties EXCEPT ![stmt.attr] = stmt.sval]
  /\ pc' = pc + 1
  /\ UNCHANGED <<doc, frame, error, files, save_calls, stdout>>

\* doc.add_heading(text, level=n)
AddHeading ==
  /\ AtStmt("add_heading")
  /\ doc' = Append(doc, NewHeading(stmt.text, stmt.level))
  /\ pc' = pc + 1
  /\ UNCHANGED <<core_properties, frame, error, files, save_calls, stdout>>

\* doc.add_paragraph(...)
AddParagraph ==
  /\ AtStmt("add_paragraph")
  /\ doc' = Append(doc, NewParagraph(stmt.text, stmt.style))
  /\ pc' = pc + 1
  /\ UNCHANGED <<core_properties, frame, error, files, save_calls, stdout>>

\* doc.add_page_break()
AddPageBreak ==
  /\ AtStmt("add_page_break")
  /\ doc' = Append(doc, NewPageBreak)
  /\ pc' = pc + 1
  /\ UNCHANGED <<core_properties, frame, error, files, save_calls, stdout>>

\* toc.add_run(text), lines 93-100
AddRun ==
  /\ AtStmt("add_run")
  /\ doc' = [doc EXCEPT ![Len(doc)].runs = Append(@, NewRun(stmt.text))]
  /\ pc' = pc + 1
  /\ UNCHANGED <<core_properties, frame, error, files, save_calls, stdout>>

\* <paragraph>.alignment = WD_ALIGN_PARAGRAPH.CENTER, lines 77 and 82
SetAlignment ==
  /\ AtStmt("set_alignment")
  /\ doc' = [doc EXCEPT ![Len(doc)].alignment = stmt.sval]
  /\ pc' = pc + 1
  /\ UNCHANGED <<core_properties, frame, error, files, save_calls, stdout>>

\* <paragraph>.runs[0].font.<attr> = value
SetFont(run, attr, sval, ival) ==
  CASE attr = "color" -> [run EXCEPT !.color = sval]
    [] attr = "size" -> [run EXCEPT !.size = ival]
    [] attr = "italic" -> [run EXCEPT !.italic = sval]
    [] attr = "name" -> [run EXCEPT !.name = sval]

SetRunFont ==
  /\ AtStmt("set_run_font")
  /\ doc' = [doc EXCEPT ![Len(doc)].runs[1] = SetFont(@, stmt.attr, stmt.sval, stmt.ival)]
  /\ pc' = pc + 1
  /\ UNCHANGED <<core_properties, frame, error, files, save_calls, stdout>>

\* create_schema_table(doc, title, headers, rows): the call; main goes on at
\* the next statement when the call has returned.
Call ==
  /\ AtStmt("create_schema_table")
  /\ frame' = NewFrame(stmt.text, stmt.headers, stmt.rows, Len(doc))
  /\ pc' = pc + 1
  /\ UNCHANGED <<core_properties, doc, error, files, save_calls, stdout>>

\* line 376: doc.save(output_path). The write succeeds or raises; main has no
\* handler, so what the write raises ends the run.
SaveError_swallowed(ok) == "None"

SaveError(ok) == IF ok THEN "None" ELSE "OSError"

Save ==
  /\ AtStmt("save")
  /\ save_calls' = save_calls + 1
  /\ \E ok \in BOOLEAN :
       /\ error' = SaveError(ok)
       /\ files' = IF ok THEN Append(files, [path |-> stmt.sval, blocks |-> doc])
                   ELSE files
       /\ pc' = IF error' = "None" THEN pc + 1 ELSE pc
  /\ UNCHANGED <<core_properties, doc, frame, stdout>>

\* line 377
PrintLine ==
  /\ AtStmt("print")
  /\ stdout' = Append(stdout, stmt.text)
  /\ pc' = pc + 1
  /\ UNCHANGED <<core_properties, doc, frame, error, files, save_calls>>

main ==
  \/ SetCore \/ AddHeading \/ AddParagraph \/ AddPageBreak \/ AddRun
  \/ SetAlignment \/ SetRunFont \/ Call \/ Save \/ PrintLine

\* line 69: doc = Document()
Init ==
  /\ core_properties = [title |-> "", author |-> ""]
  /\ doc = <<>>
  /\ pc = 1
  /\ frame = NoFrame
  /\ error = "None"
  /\ files = <<>>
  /\ save_calls = 0
  /\ stdout = <<>>

Next == main \/ create_schema_table

Spec == Init /\ [][Next]_vars

\* ---- one call of create_schema_table on any input within the bounds ----
SeqUpTo(S, n) == UNION {[1..k -> S] : k \in 0..n}

Values == {PyStr("source_table"), PyBool(FALSE)}
Titles == {"", "Main Configuration Fields"}
HeaderPool == <<"Field Name", "Type", "Mandatory", "Description">>
InitialDoc == <<NewParagraph("Intro", "None")>>

InitTable ==
  /\ core_properties = [title |-> "", author |-> ""]
  /\ doc = InitialDoc
  /\ pc = Len(MainProgram) + 1
  /\ \E title \in Titles, n \in 0..MaxCols, rows \in SeqUpTo(SeqUpTo(Values, MaxRowLen), MaxRows) :
       frame = NewFrame(title, SubSeq(HeaderPool, 1, n), rows, Len(doc))
  /\ error = "None"
  /\ files = <<>>
  /\ save_calls = 0
  /\ stdout = <<>>

NextTable == create_schema_table

SpecTable == InitTable /\ [][NextTable]_vars

\* ======================= properties of create_schema_table =======================
\* The table of the call in progress, once it is in the document.
HasTable == frame.table # 0
TheTable == doc[frame.table]
Returned == frame.at = "returned"
Raised == frame.at = "raised"
\* What the call has appended so far.
Appended == SubSeq(doc, frame.base + 1, Len(doc))
\* Some row holds more values than there are headers.
LongRow == \E r \in DOMAIN frame.rows : Len(frame.rows[r]) > Len(frame.headers)
ShortRow == \E r \in DOMAIN frame.rows : Len(frame.rows[r]) < Len(frame.headers)

\* C1: the table appended by create_schema_table(doc, title, headers, rows) has
\* exactly len(rows)+1 rows and exactly len(headers) cells in every row, and
\* exactly one table is appended; with zero rows the call raises nothing, is
\* never stuck before it returns, and the table has one row, the header row.
C1_TableShape ==
  /\ HasTable =>
       /\ TheTable.type = "table"
       /\ Len(TheTable.cells) = Len(frame.rows) + 1
       /\ \A r \in DOMAIN TheTable.cells : Len(TheTable.cells[r]) = Len(frame.headers)
       /\ Len(SelectSeq(Appended, LAMBDA b : b.type = "table")) = 1
  /\ frame.at \in {"header", "data", "spacing", "returned", "raised"} => HasTable
  /\ frame.rows = <<>> =>
       /\ error = "None" /\ ~Raised
       /\ ~Returned => ENABLED create_schema_table
       /\ HasTable => Len(TheTable.cells) = 1

C1_Witness ==
  /\ Returned /\ error = "None"
  /\ frame.rows = <<>> /\ Len(frame.headers) = 2
  /\ Len(TheTable.cells) = 1 /\ Len(TheTable.cells[1]) = 2

\* C2: after create_schema_table returns, cell (0, i) holds headers[i] for every
\* column i, and cell (r+1, c) holds str(rows[r][c]) for every value of every
\* row: the str itself, "False" for the bool False; every other cell is empty.
C2_Expected(r, c) ==
  IF r = 1
  THEN frame.headers[c]
  ELSE IF c > Len(frame.rows[r - 1]) THEN ""
  ELSE LET v == frame.rows[r - 1][c]
       IN  IF v.kind = "bool" THEN (IF v.b THEN "True" ELSE "False") ELSE v.s

C2_CellText ==
  Returned =>
    /\ \A i \in DOMAIN frame.headers : CellText(TheTable.cells[1][i]) = frame.headers[i]
    /\ \A r \in DOMAIN frame.rows : \A c \in DOMAIN frame.rows[r] :
         /\ CellText(TheTable.cells[r + 1][c]) = str(frame.rows[r][c])
         /\ frame.rows[r][c] = PyBool(FALSE) => CellText(TheTable.cells[r + 1][c]) = "False"
    /\ \A r \in DOMAIN TheTable.cells : \A c \in DOMAIN TheTable.cells[r] :
         CellText(TheTable.cells[r][c]) = C2_Expected(r, c)

C2_Witness ==
  /\ Returned
  /\ Len(frame.headers) = 2 /\ Len(frame.rows) = 2
  /\ frame.rows[1] = <<PyStr("source_table"), PyBool(FALSE)>>
  /\ frame.rows[2] = <<PyBool(FALSE), PyStr("source_table")>>
  /\ CellText(TheTable.cells[2][2]) = "False"
  /\ CellText(TheTable.cells[3][2]) = "source_table"
  /\ CellText(TheTable.cells[1][2]) = "Type"

\* The blocks a call appends, by what they are.
IsTitleHeading(b) ==
  /\ b.type = "heading" /\ b.level = 2
  /\ Len(b.runs) = 1 /\ b.runs[1].text = frame.title
IsTable(b) == b.type = "table"
IsEmptyParagraph(b) == b.type = "paragraph" /\ b.runs = <<>>

\* With h = 1 for a non-empty title and 0 for an empty one: the first n blocks
\* appended are the heading (if h = 1), the table, the empty paragraph.
AppendedIs(n) ==
  LET h == IF frame.title # "" THEN 1 ELSE 0
  IN  /\ Len(Appended) = n
      /\ SubSeq(doc, 1, frame.base) = InitialDoc
      /\ (h = 1 /\ n >= 1) => IsTitleHeading(Appended[1])
      /\ n >= h + 1 => IsTable(Appended[h + 1])
      /\ n >= h + 2 => IsEmptyParagraph(Appended[h + 2])
      /\ n <= h + 2

\* C3 as stated: every call, however it ends, has appended the heading (for a
\* non-empty title only), one table and one empty paragraph, in this order.
C3_EveryCallAppendsAll ==
  (Returned \/ Raised) => AppendedIs((IF frame.title # "" THEN 1 ELSE 0) + 2)

\* C3, amended: at every point of a call the blocks appended so far, all at the
\* end of the document, are a prefix of: the level-2 heading carrying the
\* title (if and only if the title is non-empty), one table, one empty
\* paragraph. A call that returns has appended all of them; a call that raises
\* has appended them up to the table, without the empty paragraph.
C3_AppendedBlocks ==
  LET h == IF frame.title # "" THEN 1 ELSE 0
  IN  /\ \E n \in 0..(h + 2) : AppendedIs(n)
      /\ Returned => AppendedIs(h + 2)
      /\ Raised => AppendedIs(h + 1)
      /\ (HasTable /\ frame.title = "") => IsTable(Appended[1])

C3_Witness ==
  /\ Returned /\ frame.title = ""
  /\ Len(Appended) = 2 /\ IsTable(Appended[1]) /\ IsEmptyParagraph(Appended[2])

\* C6 as stated: a row with more or with fewer values than there are headers
\* keeps the call from returning.
C6_AnyMismatchFails ==
  (LongRow \/ ShortRow) => ~Returned

\* C6, amended: a row with more values than there are headers makes the call
\* fail with an IndexError that nothing in create_schema_table handles: the
\* call never returns, goes on until it raises, and nothing runs after the
\* raise. Nothing else raises: when no row is longer than the headers (rows
\* with fewer values included) the call raises nothing and goes on until it
\* returns, the cells of a short row beyond its values left empty.
C6_LongRowRaises ==
  /\ LongRow =>
       /\ ~Returned
       /\ ~Raised => ENABLED create_schema_table
  /\ Raised <=> error = "IndexError"
  /\ error \in {"None", "IndexError"}
  /\ Raised => LongRow /\ ~ENABLED create_schema_table
  /\ ~LongRow =>
       /\ error = "None"
       /\ ~Returned => ENABLED create_schema_table
       /\ Returned =>
            \A r \in DOMAIN frame.rows : \A c \in DOMAIN TheTable.cells[r + 1] :
              c > Len(frame.rows[r]) => TheTable.cells[r + 1][c].runs = <<>>

C6_Witness ==
  /\ Raised /\ error = "IndexError"
  /\ Len(frame.headers) = 2 /\ Len(frame.rows) = 2
  /\ Len(frame.rows[1]) = 1 /\ Len(frame.rows[2]) = 3
  /\ frame.row_idx = 2 /\ frame.col_idx = 2

\* C7: every table has the six border edges top, left, bottom, right, insideH
\* and insideV, each a single black line; once the header loop is over every
\* header cell has text in runs that are all bold, 10pt and white, and carries
\* the fill 0070C0; every body cell that was written has runs that are all
\* 9pt with neither bold nor colour set. So every table whose call has
\* returned, and every table of a saved document, has all of these.
C7_Borders(t) ==
  /\ [k \in DOMAIN t.tblBorders |-> t.tblBorders[k].name] =
       <<"top", "left", "bottom", "right", "insideH", "insideV">>
  /\ \A k \in DOMAIN t.tblBorders :
       /\ t.tblBorders[k].val = "single"
       /\ t.tblBorders[k].color = "000000"

C7_HeaderCells(t) ==
  \A c \in DOMAIN t.cells[1] :
    /\ t.cells[1][c].runs # <<>>
    /\ \A k \in DOMAIN t.cells[1][c].runs :
         /\ t.cells[1][c].runs[k].bold = "True"
         /\ t.cells[1][c].runs[k].size = 10
         /\ t.cells[1][c].runs[k].color = "FFFFFF"
    /\ t.cells[1][c].shd = <<"0070C0">>

C7_BodyCells(t) ==
  \A r \in DOMAIN t.cells : \A c \in DOMAIN t.cells[r] :
    r > 1 =>
      /\ \A k \in DOMAIN t.cells[r][c].runs :
           /\ t.cells[r][c].runs[k].size = 9
           /\ t.cells[r][c].runs[k].bold = "None"
           /\ t.cells[r][c].runs[k].color = "None"
      /\ t.cells[r][c].shd = <<>>

C7_TableFormat ==
  /\ HasTable =>
       /\ C7_Borders(TheTable)
       /\ frame.at \in {"data", "spacing", "returned", "raised"} =>
            /\ C7_HeaderCells(TheTable)
            /\ Len(TheTable.cells[1]) = Len(frame.headers)
       /\ C7_BodyCells(TheTable)
       /\ Returned =>
            \A r \in DOMAIN frame.rows : \A c \in DOMAIN frame.rows[r] :
              TheTable.cells[r + 1][c].runs # <<>>
  /\ \A k \in DOMAIN doc :
       (doc[k].type = "table" /\ (k # frame.table \/ Returned)) =>
          C7_Borders(doc[k]) /\ C7_HeaderCells(doc[k]) /\ C7_BodyCells(doc[k])
  /\ \A f \in DOMAIN files : \A k \in DOMAIN files[f].blocks :
       files[f].blocks[k].type = "table" =>
          /\ C7_Borders(files[f].blocks[k])
          /\ C7_HeaderCells(files[f].blocks[k])
          /\ C7_BodyCells(files[f].blocks[k])

C7_Witness ==
  /\ Returned
  /\ Len(frame.headers) = 2 /\ Len(frame.rows) = 2
  /\ Len(frame.rows[1]) = 2
  /\ TheTable.cells[1][2].shd = <<"0070C0">>
  /\ TheTable.cells[2][2].runs[1].size = 9
  /\ Len(TheTable.tblBorders) = 6

\* ============================== properties of main ==============================
IsPrefix(s, t) == Len(s) <= Len(t) /\ SubSeq(t, 1, Len(s)) = s
Max(S) == CHOOSE x \in S : \A y \in S : y <= x
Done == Running /\ ~InCall /\ pc > Len(MainProgram)

HeadingText(b) == IF b.runs = <<>> THEN "" ELSE b.runs[1].text
\* The texts of the headings of d, in order.
HeadingTexts(d) ==
  LET hs == SelectSeq(d, LAMBDA b : b.type = "heading")
  IN  [k \in DOMAIN hs |-> HeadingText(hs[k])]
\* The place in d of the heading with this text (0: none).
HeadingAt(d, text) ==
  LET S == {k \in DOMAIN d : d[k].type = "heading" /\ HeadingText(d[k]) = text}
  IN  IF S = {} THEN 0 ELSE Max(S)
Tables(d) == SelectSeq(d, LAMBDA b : b.type = "table")
\* How many tables d holds up to place k.
TableRank(d, k) == Cardinality({j \in 1..k : d[j].type = "table"})

\* The numbered sections in the order of the table of contents, then Notes.
MajorSections ==
  <<"1. Onboarding JSON Schema (Data Flow Specification)",
    "1.1 Source Details Object",
    "1.2 CDC Apply Changes Object",
    "1.3 Apply Changes From Snapshot Object",
    "1.4 Append Flows Array Object",
    "1.5 Sink Object (DLT Sink API)",
    "2. Silver Transformations JSON Schema",
    "3. Data Quality Expectations (DQE) JSON Schema",
    "Notes">>
MajorSectionSet == {MajorSections[k] : k \in DOMAIN MajorSections}

\* The last section heading before place k of d ("": none).
SectionBefore(d, k) ==
  LET S == {j \in 1..(k - 1) :
              d[j].type = "heading" /\ HeadingText(d[j]) \in MajorSectionSet}
  IN  IF S = {} THEN "" ELSE HeadingText(d[Max(S)])

\* Every heading of the finished document, in order: the title page, the table
\* of contents, the sections with the headings inside them, Notes.
C4_Headings ==
  <<"DLT-META JSON Configuration Schemas",
    "Table of Contents",
    "1. Onboarding JSON Schema (Data Flow Specification)",
    "Main Configuration Fields",
    "1.1 Source Details Object",
    "For CloudFiles Source Format:",
    "For EventHub Source Format:",
    "For Snapshot Source Format:",
    "1.2 CDC Apply Changes Object",
    "1.3 Apply Changes From Snapshot Object",
    "1.4 Append Flows Array Object",
    "1.5 Sink Object (DLT Sink API)",
    "2. Silver Transformations JSON Schema",
    "Example:",
    "3. Data Quality Expectations (DQE) JSON Schema",
    "Example:",
    "Notes">>

\* The section each table belongs to, table by table: one table for the main
\* onboarding schema, three for the source-details variants, one each for the rest.
C4_SectionOfTable ==
  <<MajorSections[1], MajorSections[2], MajorSections[2], MajorSections[2],
    MajorSections[3], MajorSections[4], MajorSections[5], MajorSections[6],
    MajorSections[7], MajorSections[8]>>

C4_Bullets(d) == SelectSeq(d, LAMBDA b : b.type = "paragraph" /\ b.style = "List Bullet")

\* C4: main runs its steps in one order, each once: the title and author are
\* set before anything is added to the document; the headings appear in the
\* fixed order title page, table of contents, sections 1, 1.1 (three variants),
\* 1.2, 1.3, 1.4, 1.5, 2, 3, Notes, none twice; every table comes after the
\* heading of its own section and before the heading of the next, in section
\* order; the save is called once, when the document is complete (all
\* headings, ten tables, the eight notes); the line is printed once, after the
\* save; and main is never stuck before its last statement.
C4_StepOrder ==
  /\ doc # <<>> =>
       core_properties = [title |-> "DLT-META JSON Configuration Schemas",
                          author |-> "DLT-META"]
  /\ IsPrefix(HeadingTexts(doc), C4_Headings)
  /\ Len(Tables(doc)) <= Len(C4_SectionOfTable)
  /\ \A k \in DOMAIN doc :
       doc[k].type = "table" => SectionBefore(doc, k) = C4_SectionOfTable[TableRank(doc, k)]
  /\ \A k \in DOMAIN doc :
       (doc[k].type = "paragraph" /\ doc[k].style = "List Bullet") =>
          SectionBefore(doc, k) = "Notes"
  /\ save_calls <= 1 /\ Len(stdout) <= 1
  /\ save_calls = 1 =>
       /\ HeadingTexts(doc) = C4_Headings
       /\ Len(Tables(doc)) = 10
       /\ Len(C4_Bullets(doc)) = 8
       /\ ~InCall
  /\ stdout # <<>> => save_calls = 1
  /\ Done => save_calls = 1 /\ Len(stdout) = 1
  /\ (Running /\ ~Done) => ENABLED Next

C4_Witness ==
  /\ Done /\ Len(stdout) = 1 /\ save_calls = 1
  /\ HeadingTexts(doc) = C4_Headings
  /\ Len(Tables(doc)) = 10

\* C5: when the save fails main ends with the error the save raised: nothing
\* runs after it, the save is not called again, nothing is written and nothing
\* is printed. The line naming the output path is printed at most once, and
\* only when the one save has written the file.
C5_SaveFailure ==
  /\ error # "None" =>
       /\ error = "OSError"
       /\ save_calls = 1
       /\ files = <<>> /\ stdout = <<>>
       /\ ~ENABLED Next
  /\ save_calls <= 1 /\ Len(stdout) <= 1
  /\ Len(files) <= save_calls
  /\ stdout # <<>> =>
       /\ error = "None"
       /\ Len(files) = 1 /\ files[1].path = output_path
       /\ stdout[1] = "Document saved to: " \o output_path

C5_Witness ==
  /\ error = "OSError" /\ save_calls = 1
  /\ stdout = <<>> /\ files = <<>>
  /\ MainProgram[pc].op = "save"

\* C8 as stated: between the headings of every two consecutive major sections
\* (1, 1.1, 1.2, 1.3, 1.4, 1.5, 2, 3, Notes) there is a page break.
C8_PageBreakBetweenSections ==
  \A i \in 1..(Len(MajorSections) - 1) :
    LET a == HeadingAt(doc, MajorSections[i])
        b == HeadingAt(doc, MajorSections[i + 1])
    IN  (a # 0 /\ b # 0) =>
          \E k \in (a + 1)..(b - 1) : doc[k].type = "page_break"

\* What identifies a block, whatever is later set on it.
Skeleton(b) == <<b.type, b.level, IF b.type = "heading" THEN HeadingText(b) ELSE "">>

\* C9: every step of main leaves the blocks already in the document in place
\* and only appends after them; the save is called exactly once, on the
\* document as it then is, and the document does not change from the save on.
C9_AppendOnly ==
  /\ [][/\ Len(doc') >= Len(doc)
        /\ \A k \in DOMAIN doc : Skeleton(doc'[k]) = Skeleton(doc[k])
        /\ save_calls' \in {save_calls, save_calls + 1}
        /\ save_calls' <= 1
        /\ save_calls' = 1 => doc' = doc
        /\ files' # files => files' = <<[path |-> output_path, blocks |-> doc]>>
       ]_vars
  /\ [](Done => (save_calls = 1 /\ Len(files) = 1 /\ files[1].blocks = doc))

C9_Witness ==
  /\ Done /\ save_calls = 1
  /\ Len(files) = 1 /\ files[1].blocks = doc
  /\ Len(doc) > 60

\* C10: every call of create_schema_table made by main has four headers and
\* rows of four values, each a non-empty str, so no call raises on a row, and
\* every cell of every table of the saved document holds non-empty text.
C10_FourNonEmptyStrings ==
  /\ frame.at # "idle" =>
       /\ Len(frame.headers) = 4
       /\ \A c \in DOMAIN frame.headers : frame.headers[c] # ""
       /\ frame.rows # <<>>
       /\ \A r \in DOMAIN frame.rows :
            /\ Len(frame.rows[r]) = 4
            /\ \A c \in DOMAIN frame.rows[r] :
                 frame.rows[r][c].kind = "str" /\ frame.rows[r][c].s # ""
  /\ error # "IndexError" /\ frame.at # "raised"
  /\ \A f \in DOMAIN files : \A k \in DOMAIN files[f].blocks :
       LET t == files[f].blocks[k]
       IN  t.type = "table" =>
             /\ \A r \in DOMAIN t.cells :
                  /\ Len(t.cells[r]) = 4
                  /\ \A c \in DOMAIN t.cells[r] : CellText(t.cells[r][c]) # ""

C10_Witness ==
  /\ Len(files) = 1
  /\ Len(Tables(files[1].blocks)) = 10
  /\ Len(Tables(files[1].blocks)[1].cells) = Len(onboarding_data) + 1
  /\ CellText(Tables(files[1].blocks)[4].cells[3][4]) = snapshot_data[2][4]

\* An entry of the table of contents as it reads: the run's text without its
\* leading spaces and without the newline that ends it.
RECURSIVE LStrip(_)
LStrip(s) ==
  IF Len(s) > 0 /\ SubSeq(s, 1, 1) = " " THEN LStrip(SubSeq(s, 2, Len(s))) ELSE s
DropNewline(s) ==
  IF Len(s) > 0 /\ SubSeq(s, Len(s), Len(s)) = "\n" THEN SubSeq(s, 1, Len(s) - 1) ELSE s
TocEntry(s) == DropNewline(LStrip(s))

\* The place of the paragraph that holds the table of contents (0: not yet
\* added): the block after the "Table of Contents" heading.
TocAt(d) ==
  LET h == HeadingAt(d, "Table of Contents")
  IN  IF h # 0 /\ Len(d) > h THEN h + 1 ELSE 0
TocEntries(d) == [k \in DOMAIN d[TocAt(d)].runs |-> TocEntry(d[TocAt(d)].runs[k].text)]
HeadingsAfterToc(d) == HeadingTexts(SubSeq(d, TocAt(d) + 1, Len(d)))
\* The text starts with a section number: 1., 1.1 ... 1.5, 2., 3.
StartsWithSectionNumber(text) ==
  Len(text) >= 2 /\ SubSeq(text, 1, 2) \in {"1.", "2.", "3."}

\* C11: the table of contents agrees with the headings main adds after it. At
\* every point the headings added so far that start with a section number
\* are, in order, the first entries of the table of contents (so each has an
\* entry); and from the save on every entry is the text of exactly one heading
\* after the table of contents, the headings that have an entry read, in
\* document order, exactly as the entries do, and there are eight entries.
C11_TocMatchesHeadings ==
  TocAt(doc) # 0 =>
    LET entries == TocEntries(doc)
        hs == HeadingsAfterToc(doc)
        entrySet == {entries[k] : k \in DOMAIN entries}
    IN  /\ IsPrefix(SelectSeq(hs, StartsWithSectionNumber), entries)
        /\ save_calls >= 1 =>
             /\ Len(entries) = 8
             /\ \A k \in DOMAIN entries :
                  Cardinality({j \in DOMAIN hs : hs[j] = entries[k]}) = 1
             /\ SelectSeq(hs, LAMBDA h : h \in entrySet) = entries
             /\ \A j \in DOMAIN hs : StartsWithSectionNumber(hs[j]) => hs[j] \in entrySet

C11_Witness ==
  /\ Done /\ TocAt(doc) # 0
  /\ doc[TocAt(doc)].runs[2].text = "   1.1 Source Details Object\n"
  /\ TocEntries(doc)[2] = "1.1 Source Details Object"
  /\ Len(TocEntries(doc)) = 8
  /\ HeadingsAfterToc(doc)[3] = "1.1 Source Details Object"
=============================================================================
